---- MODULE Spec2Model ----
(***************************************************************************)
(* Auto-CRUD for FastAPI + SQLAlchemy (auto_crud.py).                      *)
(*                                                                         *)
(* The model has two parts.                                                *)
(*  - Startup: AutoCRUD.setup scans a models folder and a schemas folder,  *)
(*    matches every discovered model with its schema set (or synthesizes   *)
(*    one) and mounts five routes per model key.                           *)
(*  - Serving: the five generated handlers acting on the stored rows.      *)
(*                                                                         *)
(* Collaborators that are not code of the repository are modelled by what  *)
(* the handlers observe of them: the PostgreSQL constraint checks and the  *)
(* text of their error messages, SQLAlchemy's unit of work (defaults,      *)
(* onupdate, constructor keyword check), pydantic's exclude_unset and      *)
(* response validation, FastAPI's parameter validation.                    *)
(***************************************************************************)
EXTENDS Integers, Sequences, FiniteSets, Bags, TLC

\* Bounds of the model.
MaxCreates == 2      \* rows a table ever receives (primary keys 1..MaxCreates)
MaxClock == 3        \* commits in a run: each reads a later datetime.utcnow
MaxMsgLen == 3       \* fragments of a driver error message (translator inputs)
MaxColumns == 4      \* columns of a table handed to the schema synthesizer
MaxWorkers == 2      \* worker threads of the pool that runs the handlers

(***************************************************************************)
(* Values.  A value is a record [t, f, v]: t is the Python type of the     *)
(* object, f the textual form of a str ("text" for a plain string, "uuid"  *)
(* for str(UUID), "float" for str(float), "iso" for datetime.isoformat()), *)
(* v a number naming the value.                                            *)
(***************************************************************************)
Null == [t |-> "null", f |-> "-", v |-> 0]
StrV(n) == [t |-> "str", f |-> "text", v |-> n]
IntV(n) == [t |-> "int", f |-> "-", v |-> n]
FloatV(n) == [t |-> "float", f |-> "-", v |-> n]
BoolV(b) == [t |-> "bool", f |-> "-", v |-> IF b THEN 1 ELSE 0]
UuidV(n) == [t |-> "uuid", f |-> "-", v |-> n]
DtV(n) == [t |-> "datetime", f |-> "-", v |-> n]
UuidStr(n) == [t |-> "str", f |-> "uuid", v |-> n]
FloatStr(n) == [t |-> "str", f |-> "float", v |-> n]
IsoStr(n) == [t |-> "str", f |-> "iso", v |-> n]

Range(s) == {s[i] : i \in 1..Len(s)}

(***************************************************************************)
(* models/*.py: the table-mapped classes.                                  *)
(* A column: name, rendered type, primary_key, nullable, unique,           *)
(* default ("none", "uuid4", "utcnow" or "const" with dval), onupdate,     *)
(* server_default (no column of the repository declares one).              *)
(***************************************************************************)
Col(name, type, pk, nullable, unique, dflt, dval, onupdate) ==
    [name |-> name, type |-> type, pk |-> pk, nullable |-> nullable,
     unique |-> unique, dflt |-> dflt, dval |-> dval, onupdate |-> onupdate,
     server_default |-> FALSE]

IdCol == Col("id", "UUID", TRUE, FALSE, FALSE, "uuid4", Null, FALSE)
Plain(name, type) == Col(name, type, FALSE, TRUE, FALSE, "none", Null, FALSE)
Required(name, type) == Col(name, type, FALSE, FALSE, FALSE, "none", Null, FALSE)
UniqueRequired(name, type) == Col(name, type, FALSE, FALSE, TRUE, "none", Null, FALSE)
Defaulted(name, type, dval) == Col(name, type, FALSE, TRUE, FALSE, "const", dval, FALSE)
CreatedAt == Col("created_at", "DATETIME", FALSE, TRUE, FALSE, "utcnow", Null, FALSE)
UpdatedAt == Col("updated_at", "DATETIME", FALSE, TRUE, FALSE, "utcnow", Null, TRUE)

Employee ==
    << IdCol,
       UniqueRequired("employee_id", "VARCHAR"),
       Required("first_name", "VARCHAR"),
       Required("last_name", "VARCHAR"),
       UniqueRequired("email", "VARCHAR"),
       Plain("phone", "VARCHAR"),
       Plain("department", "VARCHAR"),
       Plain("position", "VARCHAR"),
       Plain("salary", "FLOAT"),
       Plain("hire_date", "DATETIME"),
       Plain("manager_id", "UUID"),
       Plain("address", "TEXT"),
       Defaulted("is_active", "BOOLEAN", BoolV(TRUE)),
       CreatedAt,
       UpdatedAt >>

User ==
    << IdCol,
       Required("name", "VARCHAR"),
       UniqueRequired("email", "VARCHAR"),
       Plain("phone", "VARCHAR"),
       Plain("age", "INTEGER"),
       Defaulted("is_active", "BOOLEAN", BoolV(TRUE)),
       CreatedAt,
       UpdatedAt >>

UserProfile ==
    << IdCol,
       Required("user_id", "UUID"),
       Plain("bio", "VARCHAR"),
       Plain("avatar_url", "VARCHAR"),
       Plain("location", "VARCHAR"),
       Plain("website", "VARCHAR"),
       Defaulted("is_public", "BOOLEAN", BoolV(TRUE)),
       CreatedAt,
       UpdatedAt >>

Product ==
    << IdCol,
       Required("name", "VARCHAR"),
       Plain("description", "VARCHAR"),
       Required("price", "INTEGER"),
       Plain("category", "VARCHAR"),
       Plain("brand", "VARCHAR"),
       Defaulted("stock_quantity", "INTEGER", IntV(0)),
       UniqueRequired("sku", "VARCHAR"),
       Defaulted("is_active", "BOOLEAN", BoolV(TRUE)),
       CreatedAt,
       UpdatedAt >>

Admin ==
    << IdCol,
       UniqueRequired("username", "VARCHAR"),
       UniqueRequired("email", "VARCHAR"),
       Required("password_hash", "VARCHAR"),
       Plain("full_name", "VARCHAR"),
       Defaulted("role", "VARCHAR", StrV(90)),
       Plain("permissions", "TEXT"),
       Defaulted("is_super_admin", "BOOLEAN", BoolV(FALSE)),
       Defaulted("is_active", "BOOLEAN", BoolV(TRUE)),
       Plain("last_login", "DATETIME"),
       CreatedAt,
       UpdatedAt >>

Category ==
    << IdCol,
       UniqueRequired("name", "VARCHAR"),
       Plain("description", "TEXT"),
       UniqueRequired("slug", "VARCHAR"),
       Plain("image_url", "VARCHAR"),
       Defaulted("sort_order", "INTEGER", IntV(0)),
       Defaulted("is_active", "BOOLEAN", BoolV(TRUE)),
       CreatedAt,
       UpdatedAt >>

SystemLog ==
    << IdCol,
       Required("admin_id", "UUID"),
       Required("action", "VARCHAR"),
       Required("entity_type", "VARCHAR"),
       Plain("details", "TEXT"),
       Plain("ip_address", "VARCHAR"),
       Plain("user_agent", "VARCHAR"),
       Defaulted("status", "VARCHAR", StrV(91)),
       CreatedAt >>

\* db_model.__table__.columns and db_model.__tablename__ of a class name.
Columns(cls) ==
    CASE cls = "Employee" -> Employee
      [] cls = "User" -> User
      [] cls = "UserProfile" -> UserProfile
      [] cls = "Product" -> Product
      [] cls = "Admin" -> Admin
      [] cls = "Category" -> Category
      [] cls = "SystemLog" -> SystemLog

TableName(cls) ==
    CASE cls = "Employee" -> "employees"
      [] cls = "User" -> "users"
      [] cls = "UserProfile" -> "user_profiles"
      [] cls = "Product" -> "products"
      [] cls = "Admin" -> "admins"
      [] cls = "Category" -> "categories"
      [] cls = "SystemLog" -> "system_logs"

ColumnNames ==
    [cls \in {"Employee", "User", "UserProfile", "Product", "Admin", "Category", "SystemLog"}
        |-> {c.name : c \in Range(Columns(cls))}]
ColumnByName ==
    [cls \in DOMAIN ColumnNames |->
        [n \in ColumnNames[cls] |-> CHOOSE c \in Range(Columns(cls)) : c.name = n]]
ColNames(cls) == ColumnNames[cls]
ColOf(cls, name) == ColumnByName[cls][name]

(***************************************************************************)
(* schemas/*.py: the hand-written pydantic classes.                        *)
(* A field: Python type, required (no default), optional (None allowed),   *)
(* default value.  A class name is the sequence of its words, so that      *)
(* name.lower() and the substring tests of the role assignment are         *)
(* computed, and an f-string is a concatenation.                           *)
(***************************************************************************)
F(ty, req, opt, dflt) == [ty |-> ty, req |-> req, opt |-> opt, dflt |-> dflt]
Req(ty) == F(ty, TRUE, FALSE, Null)
Opt(ty) == F(ty, FALSE, TRUE, Null)
Dflt(ty, d) == F(ty, FALSE, FALSE, d)

UserBase ==
    [name |-> Req("str"), email |-> Req("email"), phone |-> Opt("str"),
     age |-> Opt("int")]
UserCreate == UserBase @@ [is_active |-> Dflt("bool", BoolV(TRUE))]
UserUpdate ==
    [name |-> Opt("str"), email |-> Opt("email"), phone |-> Opt("str"),
     age |-> Opt("int"), is_active |-> Opt("bool")]
UserResponse ==
    UserBase @@ [id |-> Req("str"), is_active |-> Req("bool"),
                 created_at |-> Req("datetime"), updated_at |-> Req("datetime")]

AdminBase ==
    [username |-> Req("str"), email |-> Req("email"), full_name |-> Opt("str"),
     role |-> Dflt("str", StrV(90)), permissions |-> Opt("str")]
AdminCreate ==
    AdminBase @@ [password_hash |-> Req("str"),
                  is_super_admin |-> Dflt("bool", BoolV(FALSE)),
                  is_active |-> Dflt("bool", BoolV(TRUE))]
AdminUpdate ==
    [username |-> Opt("str"), email |-> Opt("email"), password_hash |-> Opt("str"),
     full_name |-> Opt("str"), role |-> Opt("str"), permissions |-> Opt("str"),
     is_super_admin |-> Opt("bool"), is_active |-> Opt("bool"),
     last_login |-> Opt("datetime")]
AdminResponse ==
    AdminBase @@ [id |-> Req("str"), is_super_admin |-> Req("bool"),
                  is_active |-> Req("bool"), last_login |-> Opt("datetime"),
                  created_at |-> Req("datetime"), updated_at |-> Req("datetime")]

EmployeeBase ==
    [employee_id |-> Req("str"), first_name |-> Req("str"), last_name |-> Req("str"),
     email |-> Req("email"), phone |-> Opt("str"), department |-> Opt("str"),
     position |-> Opt("str")]
EmployeeCreate ==
    EmployeeBase @@ [salary |-> Opt("float"), hire_date |-> Opt("datetime"),
                     manager_id |-> Opt("str"), address |-> Opt("str"),
                     is_active |-> Dflt("bool", BoolV(TRUE))]
EmployeeUpdate ==
    [employee_id |-> Opt("str"), first_name |-> Opt("str"), last_name |-> Opt("str"),
     email |-> Opt("email"), phone |-> Opt("str"), department |-> Opt("str"),
     position |-> Opt("str"), salary |-> Opt("float"), hire_date |-> Opt("datetime"),
     manager_id |-> Opt("str"), address |-> Opt("str"), is_active |-> Opt("bool")]
EmployeeResponse ==
    EmployeeBase @@ [id |-> Req("str"), salary |-> Opt("float"),
                     hire_date |-> Opt("datetime"), manager_id |-> Opt("str"),
                     address |-> Opt("str"), is_active |-> Req("bool"),
                     created_at |-> Req("datetime"), updated_at |-> Req("datetime")]

\* The fields of the hand-written class of a given name.
SchemaFields(name) ==
    CASE name = <<"User", "Base">> -> UserBase
      [] name = <<"User", "Create">> -> UserCreate
      [] name = <<"User", "Update">> -> UserUpdate
      [] name = <<"User", "Response">> -> UserResponse
      [] name = <<"Admin", "Base">> -> AdminBase
      [] name = <<"Admin", "Create">> -> AdminCreate
      [] name = <<"Admin", "Update">> -> AdminUpdate
      [] name = <<"Admin", "Response">> -> AdminResponse
      [] name = <<"Employee", "Base">> -> EmployeeBase
      [] name = <<"Employee", "Create">> -> EmployeeCreate
      [] name = <<"Employee", "Update">> -> EmployeeUpdate
      [] name = <<"Employee", "Response">> -> EmployeeResponse
      [] name[1] = "Item" -> [name |-> Req("str")]

\* str.lower() and str.capitalize() on the words that occur.
LowerWord(w) ==
    CASE w = "User" -> "user" [] w = "Admin" -> "admin" [] w = "Employee" -> "employee"
      [] w = "Base" -> "base" [] w = "Create" -> "create" [] w = "Update" -> "update"
      [] w = "Response" -> "response" [] w = "Model" -> "model"
      [] w = "Email" -> "email" [] w = "Str" -> "str"
      [] w = "Item" -> "item" [] w = "Schema" -> "schema" [] w = "Database" -> "database"
      [] w = "Sample" -> "sample"
      [] OTHER -> w
Capitalize(w) ==
    LET l == LowerWord(w) IN
    CASE l = "user" -> "User" [] l = "admin" -> "Admin" [] l = "employee" -> "Employee"
      [] l = "item" -> "Item" [] l = "sample" -> "Sample"
      [] l = "base" -> "Base" [] l = "create" -> "Create" [] l = "update" -> "Update"
      [] l = "response" -> "Response" [] l = "model" -> "Model"
      [] l = "email" -> "Email" [] l = "str" -> "Str"
      [] l = "schema" -> "Schema" [] l = "database" -> "Database"
\* 'sub' in text, for a text given as its words: sub is one of the words or
\* lies inside one ('base' in 'database').
Contains(text, sub) ==
    \E i \in 1..Len(text) : text[i] = sub \/ (text[i] = "database" /\ sub = "base")

Put(d, k, v) == [x \in DOMAIN d \cup {k} |-> IF x = k THEN v ELSE d[x]]
EmptyDict == [x \in {} |-> x]

(***************************************************************************)
(* Startup discovery.  A folder is [exists, files]; a file is              *)
(* [stem, private, importable, members], members being the names of the    *)
(* classes found in the imported module.                                   *)
(***************************************************************************)
\* inspect.getmembers returns the members sorted by name (code point order).
ModelNameOrder ==
    << "Admin", "Base", "Category", "Employee", "Product", "SystemLog", "UUID",
       "User", "UserProfile", "datetime" >>
SchemaNameOrder ==
    << <<"Admin", "Base">>, <<"Admin", "Create">>, <<"Admin", "Response">>,
       <<"Admin", "Update">>, <<"Base", "Model">>, <<"Email", "Str">>,
       <<"Employee", "Base">>, <<"Employee", "Create">>, <<"Employee", "Response">>,
       <<"Employee", "Update">>,
       <<"Item", "Base">>, <<"Item", "Base", "Create">>, <<"Item", "Create">>,
       <<"Item", "Create", "Response">>, <<"Item", "Database">>, <<"Item", "Response">>,
       <<"Item", "Schema">>, <<"Item", "Update">>, <<"Item", "Update", "Base">>,
       <<"User", "Base">>, <<"User", "Create">>,
       <<"User", "Response">>, <<"User", "Update">>, <<"datetime">> >>
getmembers(members, order) == SelectSeq(order, LAMBDA n : n \in members)

\* inspect.isclass(obj) and hasattr(obj, '__tablename__') and isinstance(obj, DeclarativeMeta)
TableMapped(name) ==
    name \in {"Admin", "Category", "Employee", "Product", "SystemLog", "User",
              "UserProfile"}
\* inspect.isclass(obj) and issubclass(obj, BaseModel) and obj != BaseModel
IsSchemaClass(name) ==
    \/ /\ Len(name) = 2
       /\ name[1] \in {"User", "Admin", "Employee"}
       /\ name[2] \in {"Base", "Create", "Update", "Response"}
    \/ name[1] = "Item"

ModelInfo(name) == [db_model |-> name, table_name |-> TableName(name), class_name |-> name]

\* A variant of the member scan in which the first table-mapped class of a
\* file keeps the key.
RECURSIVE ScanModelMembers_FirstWins(_, _, _)
ScanModelMembers_FirstWins(members, model_key, models) ==
    IF members = <<>> THEN models
    ELSE ScanModelMembers_FirstWins(Tail(members), model_key,
            IF TableMapped(Head(members)) /\ model_key \notin DOMAIN models
            THEN Put(models, model_key, ModelInfo(Head(members)))
            ELSE models)

RECURSIVE ScanModelMembers(_, _, _)
ScanModelMembers(members, model_key, models) ==
    IF members = <<>> THEN models
    ELSE ScanModelMembers(Tail(members), model_key,
            IF TableMapped(Head(members))
            THEN Put(models, model_key, ModelInfo(Head(members)))
            ELSE models)

RECURSIVE ScanModelFiles(_, _)
ScanModelFiles(files, models) ==
    IF files = <<>> THEN models
    ELSE LET file == Head(files) IN
         ScanModelFiles(Tail(files),
            IF file.private \/ ~file.importable THEN models
            ELSE ScanModelMembers(getmembers(file.members, ModelNameOrder),
                                  LowerWord(file.stem), models))

discover_models_from_folder(folder, models) ==
    IF ~folder.exists THEN models ELSE ScanModelFiles(folder.files, models)

\* A variant of RoleOf that tests 'base' first.
RoleOf_BaseFirst(name) ==
    LET name_lower == [i \in 1..Len(name) |-> LowerWord(name[i])] IN
    IF Contains(name_lower, "base") THEN "base"
    ELSE IF Contains(name_lower, "create") THEN "create"
    ELSE IF Contains(name_lower, "update") THEN "update"
    ELSE IF Contains(name_lower, "response") THEN "response"
    ELSE "none"

\* The role a class name selects: the first of the four substring tests.
RoleOf(name) ==
    LET name_lower == [i \in 1..Len(name) |-> LowerWord(name[i])] IN
    IF Contains(name_lower, "create") THEN "create"
    ELSE IF Contains(name_lower, "update") THEN "update"
    ELSE IF Contains(name_lower, "response") THEN "response"
    ELSE IF Contains(name_lower, "base") THEN "base"
    ELSE "none"

\* A schema class found in a file is kept as an object: where it comes from,
\* its name, its fields.
RECURSIVE ScanSchemaMembers(_, _)
ScanSchemaMembers(members, found) ==
    IF members = <<>> THEN found
    ELSE LET name == Head(members) IN
         ScanSchemaMembers(Tail(members),
            IF IsSchemaClass(name) /\ RoleOf(name) # "none"
            THEN Put(found, RoleOf(name),
                     [origin |-> "file", name |-> name, fields |-> SchemaFields(name)])
            ELSE found)

RECURSIVE ScanSchemaFiles(_, _)
ScanSchemaFiles(files, schemas) ==
    IF files = <<>> THEN schemas
    ELSE LET file == Head(files)
             found == ScanSchemaMembers(getmembers(file.members, SchemaNameOrder),
                                        EmptyDict)
         IN ScanSchemaFiles(Tail(files),
               IF file.private \/ ~file.importable \/ DOMAIN found = {} THEN schemas
               ELSE Put(schemas, LowerWord(file.stem), found))

discover_schemas_from_folder(folder, schemas) ==
    IF ~folder.exists THEN schemas ELSE ScanSchemaFiles(folder.files, schemas)

(***************************************************************************)
(* Schema synthesis from the column metadata.                              *)
(***************************************************************************)
\* type_mapping, in dict order; the rendered type of every column of the
\* repository contains exactly one of these names.
type_mapping ==
    << <<"VARCHAR", "str">>, <<"TEXT", "str">>, <<"STRING", "str">>,
       <<"INTEGER", "int">>, <<"BIGINT", "int">>, <<"FLOAT", "float">>,
       <<"REAL", "float">>, <<"BOOLEAN", "bool">>, <<"DATETIME", "datetime">>,
       <<"UUID", "str">> >>

sqlalchemy_to_python_type(column_type) ==
    LET hits == SelectSeq(type_mapping, LAMBDA e : e[1] = column_type) IN
    IF hits = <<>> THEN "str" ELSE Head(hits)[2]

\* A variant of is_auto_field without the server_default test.
is_auto_field_NoServerDefault(column) ==
    LET name_lower == IF column.name = "LAST_UPDATED_AT" THEN "last_updated_at"
                      ELSE column.name
    IN \/ column.pk
       \/ column.dflt # "none"
       \/ name_lower = "created_at"
       \/ name_lower \in {"updated_at", "last_updated_at"}

\* column.name.lower() and the two substring tests, over the column names
\* of the model: the only ones containing 'created_at' or 'updated_at' are
\* those two names and LAST_UPDATED_AT.
is_auto_field(column) ==
    LET name_lower == IF column.name = "LAST_UPDATED_AT" THEN "last_updated_at"
                      ELSE column.name
    IN \/ column.pk
       \/ column.dflt # "none"
       \/ column.server_default
       \/ name_lower = "created_at"
       \/ name_lower \in {"updated_at", "last_updated_at"}

AutoResponseField(column) ==
    IF column.pk THEN Req("str")
    ELSE IF column.nullable THEN Opt(sqlalchemy_to_python_type(column.type))
    ELSE Req(sqlalchemy_to_python_type(column.type))

AutoCreateField(column) ==
    IF column.nullable \/ column.dflt # "none"
    THEN F(sqlalchemy_to_python_type(column.type), FALSE, TRUE, column.dval)
    ELSE Req(sqlalchemy_to_python_type(column.type))

\* create_fields after the loop over the columns of a table.
create_fields(columns) ==
    [n \in {c.name : c \in {x \in Range(columns) : ~x.pk /\ ~is_auto_field(x)}}
        |-> AutoCreateField(CHOOSE c \in Range(columns) : c.name = n)]

AutoSchema(model_name, role, fields) ==
    [origin |-> "auto", name |-> <<Capitalize(model_name), role>>, fields |-> fields]

\* columns: db_model.__table__.columns.  create_model is handed a class as
\* __config__ (lines 232-241): a pydantic release that reads it with
\* prepare_config accepts it, a later one raises TypeError ('type' object is
\* not iterable); the repository pins no release.
auto_generate_schemas(model_name, columns, config_accepted) ==
    LET cols == Range(columns)
        col(n) == CHOOSE c \in cols : c.name = n
    IN IF ~config_accepted THEN [raised |-> "TypeError"]
       ELSE
       [response |-> AutoSchema(model_name, "Response",
            [n \in {c.name : c \in cols} |-> AutoResponseField(col(n))]),
        create |-> AutoSchema(model_name, "Create", create_fields(columns)),
        update |-> AutoSchema(model_name, "Update",
            [n \in {c.name : c \in {x \in cols : ~x.pk}} |->
                Opt(sqlalchemy_to_python_type(col(n).type))])]

(***************************************************************************)
(* The matcher.                                                            *)
(***************************************************************************)

HasAllSchemas(model_key, schemas) ==
    /\ model_key \in DOMAIN schemas
    /\ {"create", "update", "response"} \subseteq DOMAIN schemas[model_key]

\* Variants of MatchedEntry that the matcher claims tell apart from it: one
\* that synthesizes for every key, one that fills the missing roles of a
\* discovered mapping instead of replacing it.
MatchedEntry_AlwaysSynthesized(model_key, model_info, schemas, config_accepted) ==
    [schemas |-> auto_generate_schemas(model_key, Columns(model_info.db_model), config_accepted)] @@ model_info

MatchedEntry_Merged(model_key, model_info, schemas, config_accepted) ==
    IF HasAllSchemas(model_key, schemas)
    THEN [schemas |-> schemas[model_key]] @@ model_info
    ELSE IF model_key \in DOMAIN schemas
    THEN [schemas |-> schemas[model_key]
                      @@ auto_generate_schemas(model_key, Columns(model_info.db_model), config_accepted)] @@ model_info
    ELSE [schemas |-> auto_generate_schemas(model_key, Columns(model_info.db_model), config_accepted)] @@ model_info

MatchedEntry(model_key, model_info, schemas, config_accepted) ==
    IF HasAllSchemas(model_key, schemas)
    THEN [schemas |-> schemas[model_key]] @@ model_info
    ELSE [schemas |-> auto_generate_schemas(model_key, Columns(model_info.db_model), config_accepted)] @@ model_info

\* A variant of the matcher that iterates over the schema mapping's keys.
match_models_with_schemas_BySchemaKeys(models, schemas, config_accepted) ==
    IF \E k \in DOMAIN models \cap DOMAIN schemas :
          "raised" \in DOMAIN MatchedEntry(k, models[k], schemas, config_accepted).schemas
    THEN [raised |-> "TypeError"]
    ELSE [k \in DOMAIN models \cap DOMAIN schemas |->
             MatchedEntry(k, models[k], schemas, config_accepted)]

\* The exception of _auto_generate_schemas is not caught: the matcher ends
\* with it and self.models is not assigned (line 197 is not reached).
match_models_with_schemas(models, schemas, config_accepted) ==
    IF \E k \in DOMAIN models :
          "raised" \in DOMAIN MatchedEntry(k, models[k], schemas, config_accepted).schemas
    THEN [raised |-> "TypeError"]
    ELSE [k \in DOMAIN models |-> MatchedEntry(k, models[k], schemas, config_accepted)]

\* The keys for which the matcher calls _auto_generate_schemas.
SynthesizerCalls(models, schemas) ==
    {k \in DOMAIN models : ~HasAllSchemas(k, schemas)}

\* The five routes _create_crud_router mounts under /{model_name}s.
generate_all_routes(models) ==
    (DOMAIN models) \X {"create_item", "read_items", "read_item", "update_item", "delete_item"}

(***************************************************************************)
(* The storage engine as the handlers see it: a table is the sequence of   *)
(* its committed rows, a row maps every column name to a value.  A flush   *)
(* returns [err, msg, rows]: err is "none", "integrity" (IntegrityError,   *)
(* msg the words of str(error.orig)) or "other" (any other exception);     *)
(* rows is the table as the session holds it, committed only when err is   *)
(* "none".  fault: the commit fails for a reason of its own (connection    *)
(* lost, statement timeout), which is no IntegrityError.                   *)
(***************************************************************************)
DupPhrase == "duplicate key value violates unique constraint"
NotNullPhrase == "violates not-null constraint"
ForeignKeyPhrase == "violates foreign key constraint"

\* The part of the constraint name <table>_<column>_key the translator looks for.
KeyMarker(column_name) ==
    CASE column_name = "email" -> "_email_key"
      [] column_name = "username" -> "_username_key"
      [] column_name = "employee_id" -> "_employee_id_key"
      [] column_name = "name" -> "_name_key"
      [] column_name = "slug" -> "_slug_key"
      [] column_name = "sku" -> "_sku_key"

Flushed(rows) == [err |-> "none", msg |-> <<>>, rows |-> rows]
IntegrityError(msg, rows) == [err |-> "integrity", msg |-> msg, rows |-> rows]
\* An exception that is no IntegrityError; msg: the words of str(e).
OtherError(msg, rows) == [err |-> "other", msg |-> msg, rows |-> rows]

\* The value a column stores for a bound parameter; ok is FALSE when the
\* engine rejects the text (DataError), as for a str that is no UUID.
Bind(column, value) ==
    LET good(v) == [ok |-> TRUE, v |-> v]
        bad == [ok |-> FALSE, v |-> Null]
    IN IF value = Null THEN good(Null)
       ELSE CASE column.type = "UUID" ->
                   IF value.t = "uuid" THEN good(value)
                   ELSE IF value.t = "str" /\ value.f = "uuid" THEN good(UuidV(value.v))
                   ELSE bad
              [] column.type \in {"VARCHAR", "TEXT"} ->
                   IF value.t = "str" THEN good(value) ELSE bad
              [] column.type = "FLOAT" ->
                   IF value.t = "float" THEN good(value)
                   ELSE IF value.t = "int" THEN good(FloatV(value.v))
                   ELSE bad
              [] column.type = "INTEGER" -> IF value.t = "int" THEN good(value) ELSE bad
              [] column.type = "BOOLEAN" -> IF value.t = "bool" THEN good(value) ELSE bad
              [] column.type = "DATETIME" ->
                   IF value.t = "datetime" THEN good(value) ELSE bad

\* Column(default=...): uuid.uuid4, datetime.utcnow or a constant.
DefaultOf(column, new_id, clock) ==
    CASE column.dflt = "uuid4" -> UuidV(new_id)
      [] column.dflt = "utcnow" -> DtV(clock)
      [] column.dflt = "const" -> column.dval
      [] OTHER -> Null

\* The checks the engine makes on a new row version, in its order: input
\* syntax, NOT NULL, then the unique indexes in creation (column) order.
\* bound: the bound value of every column; others: the rows the new version
\* must not collide with; pending: the table as the session holds it.
RowOf(cls, bound) == [n \in ColNames(cls) |-> bound[n].v]
NullColumns(cls, bound) ==
    SelectSeq(Columns(cls), LAMBDA c : ~c.nullable /\ bound[c.name].v = Null)
DupColumns(cls, bound, others) ==
    SelectSeq(Columns(cls), LAMBDA c :
        /\ c.unique
        /\ bound[c.name].v # Null
        /\ \E i \in 1..Len(others) : others[i][c.name] = bound[c.name].v)

Flush(cls, bound, others, pending) ==
    IF \E n \in ColNames(cls) : ~bound[n].ok
    THEN OtherError(<<"invalid input syntax for type ",
                      Head(SelectSeq(Columns(cls), LAMBDA c : ~bound[c.name].ok)).type>>,
                    pending)
    ELSE IF NullColumns(cls, bound) # <<>>
    THEN IntegrityError(<<"null value in column", Head(NullColumns(cls, bound)).name,
                          NotNullPhrase>>, pending)
    ELSE IF DupColumns(cls, bound, others) # <<>>
    THEN IntegrityError(<<DupPhrase, TableName(cls),
                          KeyMarker(Head(DupColumns(cls, bound, others)).name)>>, pending)
    ELSE Flushed(pending)

\* db.add(db_item); db.commit(): the INSERT of a new object built from
\* item_data.  An attribute left unset or None takes the column default.
InsertValue(c, item_data, new_id, clock) ==
    IF c.name \in DOMAIN item_data /\ item_data[c.name] # Null
    THEN item_data[c.name]
    ELSE DefaultOf(c, new_id, clock)

InsertFlush(cls, rows, bound, fault) ==
    IF fault THEN OtherError(<<"server closed the connection unexpectedly">>, Append(rows, RowOf(cls, bound)))
    ELSE Flush(cls, bound, rows, Append(rows, RowOf(cls, bound)))

\* A variant of Insert that takes every falsy attribute (None, False, 0.0)
\* for an unset one.
Insert_FalsyIsUnset(cls, rows, item_data, new_id, clock, fault) ==
    InsertFlush(cls, rows,
        [n \in ColNames(cls) |->
            Bind(ColOf(cls, n),
                 IF /\ n \in DOMAIN item_data
                    /\ item_data[n] # Null
                    /\ ~(item_data[n].t \in {"bool", "int", "float"} /\ item_data[n].v = 0)
                 THEN item_data[n]
                 ELSE DefaultOf(ColOf(cls, n), new_id, clock))],
        fault)

Insert(cls, rows, item_data, new_id, clock, fault) ==
    InsertFlush(cls, rows,
        [n \in ColNames(cls) |->
            Bind(ColOf(cls, n), InsertValue(ColOf(cls, n), item_data, new_id, clock))],
        fault)

\* A variant of Find without the filter on the id.
Find_First(rows, item_id) == IF Len(rows) > 0 THEN 1 ELSE 0

\* db.query(db_model).filter(db_model.id == item_id).first(): the index of
\* the row, 0 for None.
Find(rows, item_id) ==
    IF \E i \in 1..Len(rows) : rows[i].id = UuidV(item_id)
    THEN CHOOSE i \in 1..Len(rows) : rows[i].id = UuidV(item_id)
    ELSE 0

\* setattr(db_item, field, value) for every item of update_data: the
\* attributes whose new value differs from the value loaded by the SELECT
\* are the ones the session holds as modified.  A field that is no column
\* is a plain attribute and is not stored.
Changed(cls, old, update_data) ==
    {n \in DOMAIN update_data \cap ColNames(cls) : update_data[n] # old[n]}

\* db.commit() of a PUT: an UPDATE ... WHERE id = item_id of the modified
\* attributes (dirty) and of the onupdate columns not among them, on the
\* row as it is stored now; no statement when no attribute is modified;
\* StaleDataError when the statement matches no row.
UpdateValue(c, old, dirty, clock) ==
    IF c.name \in DOMAIN dirty THEN dirty[c.name]
    ELSE IF c.onupdate THEN DtV(clock)
    ELSE old[c.name]

UpdateFlush(cls, rows, i, bound, fault) ==
    IF fault
    THEN OtherError(<<"server closed the connection unexpectedly">>,
                    [rows EXCEPT ![i] = RowOf(cls, bound)])
    ELSE Flush(cls, bound, SubSeq(rows, 1, i - 1) \o SubSeq(rows, i + 1, Len(rows)),
               [rows EXCEPT ![i] = RowOf(cls, bound)])

Stale(cls, dirty, fault) ==
    IF fault THEN <<"server closed the connection unexpectedly">>
    ELSE IF \E n \in DOMAIN dirty : ~Bind(ColOf(cls, n), dirty[n]).ok
    THEN <<"invalid input syntax for type ",
           Head(SelectSeq(Columns(cls), LAMBDA c :
                    c.name \in DOMAIN dirty /\ ~Bind(c, dirty[c.name]).ok)).type>>
    ELSE <<"UPDATE statement on table '", TableName(cls),
           "' expected to update 1 row(s); 0 were matched.">>

\* A variant of Update that writes the whole object: a column the body does
\* not set goes back to its default.
Update_WholeRow(cls, rows, item_id, dirty, clock, fault) ==
    IF DOMAIN dirty = {}
    THEN (IF fault THEN OtherError(<<"server closed the connection unexpectedly">>, rows)
          ELSE Flushed(rows))
    ELSE IF Find(rows, item_id) = 0 THEN OtherError(Stale(cls, dirty, fault), rows)
    ELSE UpdateFlush(cls, rows, Find(rows, item_id),
            [n \in ColNames(cls) |->
                Bind(ColOf(cls, n),
                     IF n \in DOMAIN dirty THEN dirty[n]
                     ELSE IF ColOf(cls, n).onupdate THEN DtV(clock)
                     ELSE IF ColOf(cls, n).dflt \in {"none", "const"} /\ ColOf(cls, n).nullable
                     THEN ColOf(cls, n).dval
                     ELSE rows[Find(rows, item_id)][n])],
            fault)

Update(cls, rows, item_id, dirty, clock, fault) ==
    IF DOMAIN dirty = {}
    THEN (IF fault THEN OtherError(<<"server closed the connection unexpectedly">>, rows)
          ELSE Flushed(rows))
    ELSE IF Find(rows, item_id) = 0 THEN OtherError(Stale(cls, dirty, fault), rows)
    ELSE UpdateFlush(cls, rows, Find(rows, item_id),
            [n \in ColNames(cls) |->
                Bind(ColOf(cls, n),
                     UpdateValue(ColOf(cls, n), rows[Find(rows, item_id)], dirty, clock))],
            fault)

\* db.delete(db_item); db.commit(): a DELETE ... WHERE id = item_id.  A
\* statement that matches no row is not an error.
Delete(rows, item_id, fault) ==
    IF fault
    THEN OtherError(<<"server closed the connection unexpectedly">>,
                    SelectSeq(rows, LAMBDA r : r.id # UuidV(item_id)))
    ELSE Flushed(SelectSeq(rows, LAMBDA r : r.id # UuidV(item_id)))

\* db.rollback(): the session's pending changes are dropped; the committed
\* rows are the ones the request found.
Rollback(committed, pending) == committed

(***************************************************************************)
(* Serialization and the response model.                                   *)
(***************************************************************************)
\* hasattr(value, 'hex'): uuid.UUID has the attribute hex, float the method hex.
HasHex(value) == value.t \in {"uuid", "float"}

SerializeValue(value) ==
    IF HasHex(value)
    THEN (IF value.t = "uuid" THEN UuidStr(value.v) ELSE FloatStr(value.v))
    ELSE IF value.t = "datetime" THEN IsoStr(value.v)   \* hasattr(value, 'isoformat')
    ELSE IF value = Null THEN Null
    ELSE value

serialize_db_item(db_item, db_model) ==
    [n \in ColNames(db_model) |-> SerializeValue(db_item[n])]

\* pydantic's validation of one value against a field of the response model.
Coerce(field, value) ==
    LET good(v) == [ok |-> TRUE, v |-> v]
        bad == [ok |-> FALSE, v |-> Null]
    IN IF value = Null THEN (IF field.opt THEN good(Null) ELSE bad)
       ELSE CASE field.ty \in {"str", "email"} ->
                   IF value.t = "str" THEN good(value) ELSE bad
              [] field.ty = "float" ->
                   IF value.t = "float" THEN good(value)
                   ELSE IF value.t = "int" THEN good(FloatV(value.v))
                   ELSE IF value.t = "str" /\ value.f = "float" THEN good(FloatV(value.v))
                   ELSE bad
              [] field.ty = "int" -> IF value.t = "int" THEN good(value) ELSE bad
              [] field.ty = "bool" -> IF value.t = "bool" THEN good(value) ELSE bad
              [] field.ty = "datetime" ->
                   IF value.t = "datetime" THEN good(value)
                   ELSE IF value.t = "str" /\ value.f = "iso" THEN good(DtV(value.v))
                   ELSE bad

\* The JSON rendering of a validated value.
JsonValue(value) ==
    IF value.t = "datetime" THEN IsoStr(value.v)
    ELSE IF value.t = "uuid" THEN UuidStr(value.v)
    ELSE value

\* response_model=schemas['response']: the returned dict is validated
\* against the response schema and rendered with the schema's fields.
ResponseField(fields, item, n) ==
    IF n \in DOMAIN item THEN Coerce(fields[n], item[n])
    ELSE IF fields[n].req THEN [ok |-> FALSE, v |-> Null]
    ELSE [ok |-> TRUE, v |-> fields[n].dflt]

ResponseBody(fields, item) ==
    [n \in DOMAIN fields |-> JsonValue(ResponseField(fields, item, n).v)]

(***************************************************************************)
(* The error translator.                                                   *)
(***************************************************************************)
HTTPException(status_code, detail) == [status |-> status_code, detail |-> detail]

\* Variants of the translator: one that looks for the field markers in any
\* message, one that has no answer of its own for the email constraint.
handle_integrity_error_MarkersAnywhere(error_msg, model_name) ==
    IF Contains(error_msg, "_email_key")
    THEN HTTPException(409,
           <<"Email already exists. Please use a different email address.">>)
    ELSE IF Contains(error_msg, "_username_key")
    THEN HTTPException(409,
           <<"Username already exists. Please choose a different username.">>)
    ELSE IF Contains(error_msg, "_employee_id_key")
    THEN HTTPException(409,
           <<"Employee ID already exists. Please use a different employee ID.">>)
    ELSE IF Contains(error_msg, DupPhrase)
    THEN HTTPException(409,
           <<"A ", model_name,
             " with this information already exists. Please check your input.">>)
    ELSE IF Contains(error_msg, NotNullPhrase)
    THEN HTTPException(400,
           <<"Missing required field. Please provide all required information.">>)
    ELSE IF Contains(error_msg, ForeignKeyPhrase)
    THEN HTTPException(400,
           <<"Referenced record does not exist. Please check your input.">>)
    ELSE HTTPException(400,
           <<"Database error: Unable to process request. Please check your input.">>)

handle_integrity_error_NoEmailAnswer(error_msg, model_name) ==
    IF Contains(error_msg, DupPhrase)
    THEN IF Contains(error_msg, "_username_key")
         THEN HTTPException(409,
                <<"Username already exists. Please choose a different username.">>)
         ELSE IF Contains(error_msg, "_employee_id_key")
         THEN HTTPException(409,
                <<"Employee ID already exists. Please use a different employee ID.">>)
         ELSE HTTPException(409,
                <<"A ", model_name,
                  " with this information already exists. Please check your input.">>)
    ELSE IF Contains(error_msg, NotNullPhrase)
    THEN HTTPException(400,
           <<"Missing required field. Please provide all required information.">>)
    ELSE IF Contains(error_msg, ForeignKeyPhrase)
    THEN HTTPException(400,
           <<"Referenced record does not exist. Please check your input.">>)
    ELSE HTTPException(400,
           <<"Database error: Unable to process request. Please check your input.">>)

handle_integrity_error(error_msg, model_name) ==
    IF Contains(error_msg, DupPhrase)
    THEN IF Contains(error_msg, "_email_key")
         THEN HTTPException(409,
                <<"Email already exists. Please use a different email address.">>)
         ELSE IF Contains(error_msg, "_username_key")
         THEN HTTPException(409,
                <<"Username already exists. Please choose a different username.">>)
         ELSE IF Contains(error_msg, "_employee_id_key")
         THEN HTTPException(409,
                <<"Employee ID already exists. Please use a different employee ID.">>)
         ELSE HTTPException(409,
                <<"A ", model_name,
                  " with this information already exists. Please check your input.">>)
    ELSE IF Contains(error_msg, NotNullPhrase)
    THEN HTTPException(400,
           <<"Missing required field. Please provide all required information.">>)
    ELSE IF Contains(error_msg, ForeignKeyPhrase)
    THEN HTTPException(400,
           <<"Referenced record does not exist. Please check your input.">>)
    ELSE HTTPException(400,
           <<"Database error: Unable to process request. Please check your input.">>)

(***************************************************************************)
(* The five handlers of _create_crud_router.  Each returns                 *)
(* [status, detail, out, rows, error]: the HTTP status, the error detail   *)
(* or message, the rows of the response body, the committed rows of the    *)
(* model's table after the request, and the words of the IntegrityError    *)
(* raised, if one was.                                                     *)
(***************************************************************************)
Result(status, detail, out, rows, error) ==
    [status |-> status, detail |-> detail, out |-> out, rows |-> rows, error |-> error]

\* Returning items through response_model: 200 with the validated rows, or
\* the framework's 500 when a returned item does not validate.
Reply(fields, items, rows) ==
    IF \A i \in 1..Len(items) : \A n \in DOMAIN fields : ResponseField(fields, items[i], n).ok
    THEN Result(200, <<>>, [i \in 1..Len(items) |-> ResponseBody(fields, items[i])],
                rows, <<>>)
    ELSE Result(500, <<"Internal Server Error">>, <<>>, rows, <<>>)

NotFound(model_name, rows) ==
    Result(404, <<Capitalize(model_name), " not found">>, <<>>, rows, <<>>)

\* except IntegrityError / except Exception of a handler: roll back, then
\* the translated error or 400 with f"Error ... {model_name}: {str(e)}".
Failed(model_name, doing, flush, rows) ==
    IF flush.err = "integrity"
    THEN LET e == handle_integrity_error(flush.msg, model_name) IN
         Result(e.status, e.detail, <<>>, Rollback(rows, flush.rows), flush.msg)
    ELSE Result(400, <<doing, model_name, ": ">> \o flush.msg, <<>>,
                Rollback(rows, flush.rows), <<>>)

\* db.refresh(db_item) and the return of a POST or PUT (lines 374-376 and
\* 417-419), run after db.commit() returned: rows are the committed rows
\* at that time.  refresh raises when the row is gone or the connection is
\* lost; the rollback of 'except Exception' then finds nothing to undo.
Refreshed(model_name, model_config, doing, rows, item_id, fault) ==
    IF fault
    THEN Failed(model_name, doing,
                OtherError(<<"server closed the connection unexpectedly">>, rows), rows)
    ELSE IF Find(rows, item_id) = 0
    THEN Failed(model_name, doing,
                OtherError(<<"Could not refresh instance '<", model_config.class_name,
                             ">'">>, rows), rows)
    ELSE Reply(model_config.schemas.response.fields,
               <<serialize_db_item(rows[Find(rows, item_id)], model_config.db_model)>>,
               rows)

\* The first key of item_data, in the field order of the create schemas,
\* that is no attribute of the class: db_model(**item_data) raises
\* TypeError for it.
InvalidKeyword(item, cls) ==
    Head(SelectSeq(<<"username", "name", "employee_id", "first_name", "last_name",
                     "email", "phone", "department", "position", "age", "full_name",
                     "role", "permissions", "password_hash", "salary", "hire_date",
                     "manager_id", "address", "is_super_admin", "is_active">>,
                   LAMBDA n : n \in DOMAIN item \ ColNames(cls)))

\* POST /{model_name}s/ up to db.commit() (lines 368-373) and the except
\* clauses.  item: the fields the validated body sets
\* (item.dict(exclude_unset=True)).  Status 0: the commit returned and the
\* handler goes on with db.refresh.
Created(model_name, model_config, rows, flush) ==
    IF flush.err # "none"
    THEN Failed(model_name, "Error creating ", flush, rows)
    ELSE Result(0, <<>>, <<>>, flush.rows, <<>>)

create_item(model_name, model_config, rows, item, new_id, clock, fault) ==
    IF ~(DOMAIN item \subseteq ColNames(model_config.db_model))
    THEN Failed(model_name, "Error creating ",
                OtherError(<<"'", InvalidKeyword(item, model_config.db_model),
                             "' is an invalid keyword argument for ",
                             model_config.class_name>>, rows), rows)
    ELSE Created(model_name, model_config, rows,
                 Insert(model_config.db_model, rows, item, new_id, clock, fault))

\* Query(0, ge=0) and Query(100, ge=1, le=1000).
SkipDefault == 0
SkipMin == 0
LimitDefault == 100
LimitMin == 1
LimitMax == 1000
Given(v) == [given |-> TRUE, v |-> v]
Omitted == [given |-> FALSE, v |-> 0]
QueryValue(param, default) == IF param.given THEN param.v ELSE default
QueryValid(skip, limit) ==
    /\ QueryValue(skip, SkipDefault) >= SkipMin
    /\ QueryValue(limit, LimitDefault) >= LimitMin
    /\ QueryValue(limit, LimitDefault) <= LimitMax
\* The status the framework answers when a declared parameter constraint fails.
RequestValidationStatus == 422

\* The detail of that answer: one error per failing parameter, skip first.
ValidationErrors(skip, limit) ==
    (IF QueryValue(skip, SkipDefault) < SkipMin
     THEN <<[type |-> "greater_than_equal", loc |-> <<"query", "skip">>,
             msg |-> <<"Input should be greater than or equal to ", SkipMin>>,
             input |-> [t |-> "str", f |-> "int", v |-> skip.v],
             ctx |-> [ge |-> SkipMin]]>>
     ELSE <<>>)
    \o (IF QueryValue(limit, LimitDefault) < LimitMin
        THEN <<[type |-> "greater_than_equal", loc |-> <<"query", "limit">>,
                msg |-> <<"Input should be greater than or equal to ", LimitMin>>,
                input |-> [t |-> "str", f |-> "int", v |-> limit.v],
                ctx |-> [ge |-> LimitMin]]>>
        ELSE IF QueryValue(limit, LimitDefault) > LimitMax
        THEN <<[type |-> "less_than_equal", loc |-> <<"query", "limit">>,
                msg |-> <<"Input should be less than or equal to ", LimitMax>>,
                input |-> [t |-> "str", f |-> "int", v |-> limit.v],
                ctx |-> [le |-> LimitMax]]>>
        ELSE <<>>)

\* The orders in which a query without ORDER BY can return the rows.
Scans(rows) ==
    {[i \in 1..Len(rows) |-> rows[p[i]]] : p \in Permutations(1..Len(rows))}

\* db.query(db_model).offset(skip).limit(limit).all(), over the rows in the
\* order the scan returns them.
Page(scan, skip, limit) ==
    SubSeq(scan, skip + 1, IF skip + limit < Len(scan) THEN skip + limit ELSE Len(scan))

\* GET /{model_name}s/?skip=&limit=
read_items(model_name, model_config, scan, skip, limit) ==
    IF ~QueryValid(skip, limit)
    THEN Result(RequestValidationStatus, ValidationErrors(skip, limit), <<>>, scan, <<>>)
    ELSE LET items == Page(scan, QueryValue(skip, SkipDefault),
                           QueryValue(limit, LimitDefault))
         IN Reply(model_config.schemas.response.fields,
                  [i \in 1..Len(items) |-> serialize_db_item(items[i], model_config.db_model)],
                  scan)

\* GET /{model_name}s/{item_id}
read_item(model_name, model_config, rows, item_id) ==
    LET i == Find(rows, item_id) IN
    IF i = 0 THEN NotFound(model_name, rows)
    ELSE Reply(model_config.schemas.response.fields,
               <<serialize_db_item(rows[i], model_config.db_model)>>, rows)

\* PUT /{model_name}s/{item_id}, lines 407-409: the SELECT of the row.
\* Status 0: the row is loaded and the handler goes on.
update_item(model_name, rows, item_id) ==
    IF Find(rows, item_id) = 0 THEN NotFound(model_name, rows)
    ELSE Result(0, <<>>, <<>>, rows, <<>>)

\* Lines 411-416 and the except clauses, run on the rows committed at that
\* time.  Status 0: the commit returned and the handler goes on with
\* db.refresh.
Updated(model_name, rows, flush) ==
    IF flush.err # "none"
    THEN Failed(model_name, "Error updating ", flush, rows)
    ELSE Result(0, <<>>, <<>>, flush.rows, <<>>)

\* DELETE /{model_name}s/{item_id}, lines 430-432: the SELECT of the row.
delete_item(model_name, rows, item_id) ==
    IF Find(rows, item_id) = 0 THEN NotFound(model_name, rows)
    ELSE Result(0, <<>>, <<>>, rows, <<>>)

\* Lines 434-440, run on the rows committed at that time.  The handler has
\* one except clause, 'except Exception': every failure is rolled back and
\* answered 400 with f"Error deleting {model_name}: {str(e)}".
Deleted(model_name, rows, flush) ==
    IF flush.err # "none"
    THEN Result(400, <<"Error deleting ", model_name, ": ">> \o flush.msg, <<>>,
                Rollback(rows, flush.rows), <<>>)
    ELSE Result(200, <<Capitalize(model_name), " deleted successfully">>, <<>>,
                flush.rows, <<>>)

(***************************************************************************)
(* Request inputs.  A body is the mapping of the fields it sets; the       *)
(* bodies a handler receives are those its schema validates.               *)
(***************************************************************************)
ValidBody(fields, body) ==
    /\ DOMAIN body \subseteq DOMAIN fields
    /\ \A n \in DOMAIN fields : fields[n].req => n \in DOMAIN body
    /\ \A n \in DOMAIN body :
          /\ Coerce(fields[n], body[n]).ok
          /\ Coerce(fields[n], body[n]).v = body[n]

EmployeeCore(i, j) ==
    [employee_id |-> StrV(i), first_name |-> StrV(20), last_name |-> StrV(21),
     email |-> StrV(10 + j)]
CreateCandidates ==
    {EmployeeCore(1, 1),
     EmployeeCore(2, 1),
     EmployeeCore(2, 2) @@
        [salary |-> FloatV(1), hire_date |-> DtV(0), manager_id |-> UuidStr(7),
         phone |-> Null, is_active |-> BoolV(FALSE)],
     EmployeeCore(3, 3) @@ [manager_id |-> StrV(3)],
     [name |-> StrV(20), email |-> StrV(11)],
     [username |-> StrV(20), email |-> StrV(11), password_hash |-> StrV(22)]}
UpdateCandidates ==
    {EmptyDict,
     [email |-> StrV(11)],
     [email |-> Null],
     [salary |-> FloatV(2)],
     [is_active |-> Null]}
PageRequests ==
    {<<Omitted, Omitted>>, <<Given(-1), Omitted>>, <<Given(1), Omitted>>,
     <<Omitted, Given(0)>>, <<Omitted, Given(1)>>, <<Given(1), Given(1)>>,
     <<Omitted, Given(LimitMax)>>, <<Omitted, Given(LimitMax + 1)>>}

(***************************************************************************)
(* The folders.                                                            *)
(***************************************************************************)
File(stem, importable, members) ==
    [stem |-> stem, private |-> FALSE, importable |-> importable, members |-> members]
Absent == [stem |-> "", private |-> FALSE, importable |-> FALSE, members |-> {}]
Folder(files) ==
    [exists |-> TRUE, files |-> SelectSeq(files, LAMBDA f : f.stem # "")]
NoFolder == [exists |-> FALSE, files |-> <<>>]

\* The classes each file of the repository binds at module level.
UserModels == {"Base", "UUID", "datetime", "User", "UserProfile", "Product"}
AdminModels == {"Base", "UUID", "datetime", "Admin", "Category", "SystemLog"}
EmployeeModels == {"Base", "UUID", "datetime", "Employee"}
Imported == {<<"Base", "Model">>, <<"Email", "Str">>, <<"datetime">>}
SchemaClasses(word) ==
    {<<word, "Base">>, <<word, "Create">>, <<word, "Update">>, <<word, "Response">>}

RepoModelsFolder ==
    Folder(<< File("admin", TRUE, AdminModels), File("employee", TRUE, EmployeeModels),
              File("user", TRUE, UserModels) >>)
RepoSchemasFolder ==
    Folder(<< File("admin", TRUE, Imported \cup SchemaClasses("Admin")),
              File("employee", TRUE, Imported \cup SchemaClasses("Employee")),
              File("user", TRUE, Imported \cup SchemaClasses("User")) >>)

\* Folders the startup claims are checked on: any of the repository's files
\* may be missing or fail to import, a schema file may hold any subset of
\* its classes, either folder may not exist.
ModelsFolders ==
    {NoFolder} \cup
    {Folder(<<a, e, u>>) :
        a \in {Absent, File("admin", TRUE, AdminModels), File("admin", FALSE, AdminModels)},
        e \in {Absent, File("employee", TRUE, EmployeeModels)},
        u \in {Absent, File("user", TRUE, UserModels)}}
SchemasFolders ==
    {NoFolder} \cup
    {Folder(<<a, e, u>>) :
        a \in {Absent, File("admin", TRUE, Imported \cup SchemaClasses("Admin")),
                File("admin", FALSE, Imported \cup SchemaClasses("Admin"))},
        e \in {Absent} \cup {File("employee", TRUE, Imported \cup c) :
                                c \in SUBSET SchemaClasses("Employee")},
        u \in {Absent} \cup {File("user", TRUE, Imported \cup c) :
                                c \in SUBSET SchemaClasses("User")}}

\* Base.metadata: every table-mapped class of the imported model modules.
Tables == {"employees", "users", "user_profiles", "products", "admins", "categories",
           "system_logs"}

(***************************************************************************)
(* State.                                                                  *)
(***************************************************************************)
VARIABLES
    pc,              \* position in setup: "start", "models", "schemas", "matched", "serving"
    models_folder,   \* the models folder on disk
    schemas_folder,  \* the schemas folder on disk
    models,          \* self.models
    schemas,         \* self.schemas
    synthesized,     \* the keys _auto_generate_schemas was called for
    routes,          \* the routes mounted on the app: <<model key, handler>>
    db,              \* committed rows of every table, in storage order
    allocated,       \* primary keys handed out per table (uuid4 never repeats)
    now,             \* the clock: every commit reads a later datetime.utcnow
    resp,            \* the last request and its response
    error,           \* the words of the IntegrityError the last request raised
    posted,          \* rows created by a POST and not written since: table -> id -> request
    deleted,         \* <<model key, id>> of every row a DELETE removed
    inflight,        \* the bag of handler threads between two of their database round trips
    workers          \* the worker threads of the pool: the handlers that run at a time

vars == <<pc, models_folder, schemas_folder, models, schemas, synthesized, routes,
          db, allocated, now, resp, error, posted, deleted, inflight, workers>>

InitWith(mf, sf, raised, model_name, body, pool) ==
    /\ pc = "start"
    /\ models_folder = mf
    /\ schemas_folder = sf
    /\ models = EmptyDict
    /\ schemas = EmptyDict
    /\ synthesized = {}
    /\ routes = {}
    /\ db = [t \in Tables |-> <<>>]
    /\ allocated = [t \in Tables |-> 0]
    /\ now = 0
    /\ resp = [op |-> "none", key |-> model_name, id |-> 0, body |-> body,
               skip |-> Omitted, limit |-> Omitted, status |-> 0, detail |-> <<>>,
               out |-> <<>>, thread |-> <<>>]
    /\ error = raised
    /\ posted = [t \in Tables |-> EmptyDict]
    /\ deleted = {}
    /\ inflight = EmptyBag
    /\ workers = pool


\* setup, line 64
DiscoverModels ==
    /\ pc = "start"
    /\ models' = discover_models_from_folder(models_folder, models)
    /\ pc' = "models"
    /\ UNCHANGED <<models_folder, schemas_folder, schemas, synthesized, routes, db, allocated, now,
                 resp, error, posted, deleted, inflight, workers>>

\* setup, line 65
DiscoverSchemas ==
    /\ pc = "models"
    /\ schemas' = discover_schemas_from_folder(schemas_folder, schemas)
    /\ pc' = "schemas"
    /\ UNCHANGED <<models_folder, schemas_folder, models, synthesized, routes, db, allocated, now,
                 resp, error, posted, deleted, inflight, workers>>

\* setup, line 68
\* setup does not catch the matcher's exception: it ends with it (pc
\* "failed"), after one call of the synthesizer, and nothing is served.
MatchModels ==
    /\ pc = "schemas"
    /\ \E config_accepted \in BOOLEAN :
       \E r \in {match_models_with_schemas(models, schemas, config_accepted)} :
          IF "raised" \in DOMAIN r
          THEN /\ pc' = "failed"
               /\ models' = models
               /\ \E k \in SynthesizerCalls(models, schemas) : synthesized' = {k}
          ELSE /\ pc' = "matched"
               /\ models' = r
               /\ synthesized' = SynthesizerCalls(models, schemas)
    /\ UNCHANGED <<models_folder, schemas_folder, schemas, routes, db, allocated, now,
                 resp, error, posted, deleted, inflight, workers>>

\* setup, lines 71-75: create_all adds no row; the routes are mounted.
GenerateRoutes ==
    /\ pc = "matched"
    /\ routes' = routes \cup generate_all_routes(models)
    /\ pc' = "serving"
    /\ UNCHANGED <<models_folder, schemas_folder, models, schemas, synthesized, db, allocated, now,
                 resp, error, posted, deleted, inflight, workers>>

Setup == DiscoverModels \/ DiscoverSchemas \/ MatchModels \/ GenerateRoutes

\* Startup on any of the folders.
SpecSetup ==
    /\ \E mf \in ModelsFolders, sf \in SchemasFolders : InitWith(mf, sf, <<>>, "", EmptyDict, 1)
    /\ [][Setup]_vars

\* Folders for the two loaders on their own.  Models: each file may be
\* missing, hold any subset of its table-mapped classes or fail to import;
\* Employee.py has a capitalized stem; __init__.py is skipped.  Schemas: a
\* file item.py holding any subset of classes whose names carry none, one or
\* two of the role words.
LoaderFolders ==
    {<<Folder(<<a, e, u, p>>), RepoSchemasFolder>> :
        a \in {Absent, File("admin", FALSE, AdminModels)} \cup
              {File("admin", TRUE, {"Base", "UUID", "datetime"} \cup c) :
                  c \in SUBSET {"Admin", "Category", "SystemLog"}},
        e \in {Absent, File("employee", TRUE, EmployeeModels),
               File("Employee", TRUE, EmployeeModels)},
        u \in {Absent, File("user", FALSE, UserModels)} \cup
              {File("user", TRUE, {"Base", "UUID", "datetime"} \cup c) :
                  c \in SUBSET {"User", "UserProfile", "Product"}},
        p \in {Absent, [File("__init__", TRUE, UserModels) EXCEPT !.private = TRUE]}}
    \cup
    {<<RepoModelsFolder, Folder(<<File("item", TRUE, Imported \cup c)>>)>> :
        c \in SUBSET {<<"Item", "Base">>, <<"Item", "Base", "Create">>,
                      <<"Item", "Create">>, <<"Item", "Create", "Response">>,
                      <<"Item", "Database">>, <<"Item", "Response">>,
                      <<"Item", "Schema">>, <<"Item", "Update">>,
                      <<"Item", "Update", "Base">>}}
SpecLoaders ==
    /\ \E f \in LoaderFolders : InitWith(f[1], f[2], <<>>, "", EmptyDict, 1)
    /\ [][Setup]_vars

(***************************************************************************)
(* Serving.                                                                *)
(***************************************************************************)
discovery == <<pc, models_folder, schemas_folder, models, schemas, synthesized, routes, workers>>

Mounted(key, op) == pc = "serving" /\ <<key, op>> \in routes

Request(op, key, id, body, skip, limit, r) ==
    [op |-> op, key |-> key, id |-> id, body |-> body, skip |-> skip, limit |-> limit,
     status |-> r.status, detail |-> r.detail, out |-> r.out, thread |-> <<>>]

Forget(d, k) == [x \in DOMAIN d \ {k} |-> d[x]]

Keys == {"admin", "employee", "user"}

\* The requests the clients send.  With one worker the handlers run one
\* after the other and the requests are drawn from all the candidates; with
\* more workers, where handlers interleave, they address the employees, the
\* one table that ever holds a row.
Load ==
    IF workers = 1
    THEN [keys |-> Keys, ids |-> 1..MaxCreates, creates |-> CreateCandidates,
          updates |-> UpdateCandidates, pages |-> PageRequests]
    ELSE [keys |-> {"employee"}, ids |-> 1..MaxCreates, creates |-> CreateCandidates,
          updates |-> {[email |-> StrV(11)], [email |-> StrV(12)], [salary |-> FloatV(2)]},
          pages |-> {<<Omitted, Omitted>>}]

\* A handler thread that has not answered yet is a record of the bag
\* inflight.  at: "selected" after the SELECT of a PUT or DELETE,
\* "committed" after the db.commit() of a POST or PUT; dirty: the attributes
\* a PUT has modified on the loaded object; wrote: whether its commit
\* changed a row.  A request is taken up when a worker is free.
CreateItem(key, item, fault) ==
    /\ Mounted(key, "create_item")
    /\ BagCardinality(inflight) < workers
    /\ LET t == models[key].table_name
           new_id == allocated[t] + 1
       IN \E r \in {create_item(key, models[key], db[t], item, new_id, now, fault)} :
          /\ r.rows # db[t] => new_id \in Load.ids /\ now < MaxClock
          /\ db' = [db EXCEPT ![t] = r.rows]
          /\ now' = IF r.rows # db[t] THEN now + 1 ELSE now
          /\ allocated' = IF r.rows # db[t] THEN [allocated EXCEPT ![t] = new_id]
                          ELSE allocated
          /\ resp' = Request("create_item", key, 0, item, Omitted, Omitted, r)
          /\ error' = r.error
          /\ inflight' = IF r.status = 0
                         THEN inflight (+) SetToBag({[op |-> "create_item", key |-> key,
                                 id |-> new_id, at |-> "committed", body |-> EmptyDict,
                                 dirty |-> EmptyDict, wrote |-> TRUE]})
                         ELSE inflight
          /\ posted' = IF r.status = 0
                       THEN [posted EXCEPT ![t] =
                                Put(@, new_id, [body |-> item, at |-> now, status |-> 0])]
                       ELSE posted
    /\ UNCHANGED <<discovery, deleted>>

ReadItems(key, skip, limit) ==
    /\ Mounted(key, "read_items")
    /\ BagCardinality(inflight) < workers
    /\ LET t == models[key].table_name
       IN \E scan \in Scans(db[t]) :
          \E r \in {read_items(key, models[key], scan, skip, limit)} :
          /\ resp' = Request("read_items", key, 0, EmptyDict, skip, limit, r)
          /\ error' = r.error
    /\ UNCHANGED <<discovery, db, allocated, now, posted, deleted, inflight>>

ReadItem(key, item_id) ==
    /\ Mounted(key, "read_item")
    /\ BagCardinality(inflight) < workers
    /\ LET t == models[key].table_name
       IN \E r \in {read_item(key, models[key], db[t], item_id)} :
          /\ resp' = Request("read_item", key, item_id, EmptyDict, Omitted, Omitted, r)
          /\ error' = r.error
    /\ UNCHANGED <<discovery, db, allocated, now, posted, deleted, inflight>>

UpdateItem(key, item_id, item_update) ==
    /\ Mounted(key, "update_item")
    /\ BagCardinality(inflight) < workers
    /\ LET t == models[key].table_name
       IN \E r \in {update_item(key, db[t], item_id)} :
          /\ resp' = Request("update_item", key, item_id, item_update, Omitted, Omitted, r)
          /\ error' = r.error
          /\ inflight' = IF r.status = 0
                         THEN inflight (+) SetToBag({[op |-> "update_item", key |-> key,
                                 id |-> item_id, at |-> "selected", body |-> item_update,
                                 dirty |-> [n \in Changed(models[key].db_model,
                                                          db[t][Find(db[t], item_id)],
                                                          item_update) |-> item_update[n]],
                                 wrote |-> FALSE]})
                         ELSE inflight
    /\ UNCHANGED <<discovery, db, allocated, now, posted, deleted>>

DeleteItem(key, item_id) ==
    /\ Mounted(key, "delete_item")
    /\ BagCardinality(inflight) < workers
    /\ LET t == models[key].table_name
       IN \E r \in {delete_item(key, db[t], item_id)} :
          /\ resp' = Request("delete_item", key, item_id, EmptyDict, Omitted, Omitted, r)
          /\ error' = r.error
          /\ inflight' = IF r.status = 0
                         THEN inflight (+) SetToBag({[op |-> "delete_item", key |-> key,
                                 id |-> item_id, at |-> "selected", body |-> EmptyDict,
                                 dirty |-> EmptyDict, wrote |-> FALSE]})
                         ELSE inflight
    /\ UNCHANGED <<discovery, db, allocated, now, posted, deleted>>

\* A variant of CommitItem that drops the model entry once a row is deleted.
CommitItem_DropsModel(th, fault) ==
    /\ pc = "serving"
    /\ BagIn(th, inflight)
    /\ th.at = "selected"
    /\ LET t == models[th.key].table_name
       IN \E r \in {IF th.op = "update_item"
                     THEN Updated(th.key, db[t],
                                  Update(models[th.key].db_model, db[t], th.id, th.dirty,
                                         now, fault))
                     ELSE Deleted(th.key, db[t], Delete(db[t], th.id, fault))} :
          /\ r.rows # db[t] => now < MaxClock
          /\ db' = [db EXCEPT ![t] = r.rows]
          /\ now' = IF r.rows # db[t] THEN now + 1 ELSE now
          /\ resp' = [Request(th.op, th.key, th.id, th.body, Omitted, Omitted, r)
                        EXCEPT !.thread = <<th>>]
          /\ error' = r.error
          /\ inflight' = IF r.status = 0
                         THEN (inflight (-) SetToBag({th}))
                              (+) SetToBag({[th EXCEPT !.at = "committed",
                                                       !.body = EmptyDict,
                                                       !.dirty = EmptyDict,
                                                       !.wrote = r.rows # db[t]]})
                         ELSE inflight (-) SetToBag({th})
          /\ posted' = IF r.rows # db[t] THEN [posted EXCEPT ![t] = Forget(@, th.id)]
                       ELSE posted
          /\ deleted' = IF th.op = "delete_item" /\ r.status = 200
                        THEN deleted \cup {<<th.key, th.id>>}
                        ELSE deleted
          /\ models' = IF th.op = "delete_item" /\ r.status = 200
                       THEN Forget(models, th.key)
                       ELSE models
    /\ UNCHANGED <<pc, models_folder, schemas_folder, schemas, synthesized, routes,
                   allocated, workers>>

\* The handler thread th goes on after its SELECT: the setattr calls and
\* db.commit() of a PUT, db.delete and db.commit() of a DELETE, and the
\* except clauses of a failed commit.  Other requests may have been served
\* since the SELECT.
CommitItem(th, fault) ==
    /\ pc = "serving"
    /\ BagIn(th, inflight)
    /\ th.at = "selected"
    /\ LET t == models[th.key].table_name
       IN \E r \in {IF th.op = "update_item"
                     THEN Updated(th.key, db[t],
                                  Update(models[th.key].db_model, db[t], th.id, th.dirty,
                                         now, fault))
                     ELSE Deleted(th.key, db[t], Delete(db[t], th.id, fault))} :
          /\ r.rows # db[t] => now < MaxClock
          /\ db' = [db EXCEPT ![t] = r.rows]
          /\ now' = IF r.rows # db[t] THEN now + 1 ELSE now
          /\ resp' = [Request(th.op, th.key, th.id, th.body, Omitted, Omitted, r)
                        EXCEPT !.thread = <<th>>]
          /\ error' = r.error
          /\ inflight' = IF r.status = 0
                         THEN (inflight (-) SetToBag({th}))
                              (+) SetToBag({[th EXCEPT !.at = "committed",
                                                       !.body = EmptyDict,
                                                       !.dirty = EmptyDict,
                                                       !.wrote = r.rows # db[t]]})
                         ELSE inflight (-) SetToBag({th})
          /\ posted' = IF r.rows # db[t] THEN [posted EXCEPT ![t] = Forget(@, th.id)]
                       ELSE posted
          /\ deleted' = IF th.op = "delete_item" /\ r.status = 200
                        THEN deleted \cup {<<th.key, th.id>>}
                        ELSE deleted
    /\ UNCHANGED <<discovery, allocated>>

\* The handler thread th goes on after its commit: db.refresh, the
\* serialization of the refreshed row and the answer.
RefreshItem(th, fault) ==
    /\ pc = "serving"
    /\ BagIn(th, inflight)
    /\ th.at = "committed"
    /\ \E r \in {Refreshed(th.key, models[th.key],
                            IF th.op = "create_item" THEN "Error creating "
                            ELSE "Error updating ",
                            db[models[th.key].table_name], th.id, fault)} :
          /\ resp' = [Request(th.op, th.key, th.id, EmptyDict, Omitted, Omitted, r)
                        EXCEPT !.thread = <<th>>]
          /\ error' = r.error
          /\ posted' = IF /\ th.op = "create_item"
                          /\ th.id \in DOMAIN posted[models[th.key].table_name]
                       THEN [posted EXCEPT ![models[th.key].table_name][th.id].status = r.status]
                       ELSE posted
    /\ inflight' = inflight (-) SetToBag({th})
    /\ UNCHANGED <<discovery, db, allocated, now, deleted>>


Create ==
    \E key \in {k \in Load.keys : Mounted(k, "create_item")} :
        \E item \in {b \in Load.creates : ValidBody(models[key].schemas.create.fields, b)} :
        \E fault \in BOOLEAN : CreateItem(key, item, fault)
List == \E key \in Load.keys : \E p \in Load.pages : ReadItems(key, p[1], p[2])
Read == \E key \in Load.keys : \E item_id \in Load.ids : ReadItem(key, item_id)
Put_ ==
    \E key \in {k \in Load.keys : Mounted(k, "update_item")} : \E item_id \in Load.ids :
        \E item_update \in {b \in Load.updates : ValidBody(models[key].schemas.update.fields, b)} :
            UpdateItem(key, item_id, item_update)
Remove == \E key \in Load.keys : \E item_id \in Load.ids : DeleteItem(key, item_id)
Commit == \E th \in BagToSet(inflight) : \E fault \in BOOLEAN : CommitItem(th, fault)
Resume == \E th \in BagToSet(inflight) : \E fault \in BOOLEAN : RefreshItem(th, fault)

(***************************************************************************)
(* The error translator on its own: the message of the IntegrityError is   *)
(* any text made of the fragments the translator looks for and of other    *)
(* text, the model name any of the repository's keys.                      *)
(***************************************************************************)
Fragments ==
    {DupPhrase, "_email_key", "_username_key", "_employee_id_key", NotNullPhrase,
     ForeignKeyPhrase, "other text"}

Translate ==
    /\ pc = "start"
    /\ resp.op = "none"
    /\ LET e == handle_integrity_error(error, resp.key) IN
       resp' = [resp EXCEPT !.op = "handle_integrity_error", !.status = e.status,
                            !.detail = e.detail]
    /\ UNCHANGED <<discovery, db, allocated, now, error, posted, deleted, inflight>>

SpecTranslate ==
    /\ \E raised \in UNION {[1..n -> Fragments] : n \in 0..MaxMsgLen}, model_name \in Keys :
          InitWith(RepoModelsFolder, RepoSchemasFolder, raised, model_name, EmptyDict, 1)
    /\ [][Translate]_vars

(***************************************************************************)
(* The schema synthesizer and the row serializer on their own.             *)
(***************************************************************************)
\* A table handed to the synthesizer: each of five names is absent (<<>>)
\* or is a column of the given kind <<primary_key, nullable, has a default,
\* has a server_default>>.
SampleTable(kind) ==
    LET names == <<"id", "name", "age", "created_at", "LAST_UPDATED_AT">>
        type(n) == CASE n = "id" -> "UUID" [] n = "name" -> "VARCHAR"
                     [] n = "age" -> "INTEGER" [] OTHER -> "DATETIME"
        dflt(n) == CASE n = "id" -> "uuid4" [] n \in {"name", "age"} -> "const"
                     [] OTHER -> "utcnow"
        dval(n) == CASE n = "name" -> StrV(1) [] n = "age" -> IntV(1) [] OTHER -> Null
        column(n, k) ==
            [Col(n, type(n), k[1], k[2], FALSE, IF k[3] THEN dflt(n) ELSE "none",
                 IF k[3] THEN dval(n) ELSE Null, FALSE)
             EXCEPT !.server_default = k[4]]
        present == SelectSeq(<<1, 2, 3, 4, 5>>, LAMBDA i : kind[i] # <<>>)
    IN [i \in 1..Len(present) |-> column(names[present[i]], kind[present[i]])]

\* Loaded rows of two mapped classes: every column holds a value of its
\* type, or None where the column is nullable.
SampleRows ==
    LET value(c) == CASE c.type = "UUID" -> UuidV(1)
                      [] c.type \in {"VARCHAR", "TEXT"} -> StrV(1)
                      [] c.type = "INTEGER" -> IntV(1)
                      [] c.type = "FLOAT" -> FloatV(1)
                      [] c.type = "BOOLEAN" -> BoolV(TRUE)
                      [] c.type = "DATETIME" -> DtV(1)
        nullable(cls) == {c.name : c \in {x \in Range(Columns(cls)) : x.nullable}}
        row(cls, unset) ==
            [n \in ColNames(cls) |-> IF n \in unset THEN Null ELSE value(ColOf(cls, n))]
    IN UNION {{<<cls, row(cls, unset)>> : unset \in SUBSET nullable(cls)} :
              cls \in {"Employee", "Product"}}

Synthesize ==
    /\ pc = "start"
    /\ resp.op = "none"
    /\ resp.key = "sample"
    /\ \E config_accepted \in BOOLEAN :
          resp' = [resp EXCEPT !.op = "auto_generate_schemas",
                               !.out = auto_generate_schemas(resp.key, resp.body,
                                                             config_accepted)]
    /\ UNCHANGED <<discovery, db, allocated, now, error, posted, deleted, inflight>>

Serialize ==
    /\ pc = "start"
    /\ resp.op = "none"
    /\ resp.key \in {"Employee", "Product"}
    /\ resp' = [resp EXCEPT !.op = "serialize_db_item",
                            !.out = serialize_db_item(resp.body, resp.key)]
    /\ UNCHANGED <<discovery, db, allocated, now, error, posted, deleted, inflight>>

SpecFunctions ==
    /\ \/ \E kind \in [1..5 -> {<<>>} \cup {<<TRUE, FALSE, d, FALSE>> : d \in BOOLEAN}
                                  \cup {<<FALSE, nullable, d, sd>> :
                                           nullable \in BOOLEAN, d \in BOOLEAN,
                                           sd \in BOOLEAN}] :
             /\ Cardinality({i \in 1..5 : kind[i] # <<>>}) <= MaxColumns
             /\ InitWith(RepoModelsFolder, RepoSchemasFolder, <<>>, "sample",
                         SampleTable(kind), 1)
       \/ \E sample \in SampleRows :
             InitWith(RepoModelsFolder, RepoSchemasFolder, <<>>, sample[1], sample[2], 1)
    /\ [][Synthesize \/ Serialize]_vars

Init == \E pool \in 1..MaxWorkers : InitWith(RepoModelsFolder, RepoSchemasFolder, <<>>, "", EmptyDict, pool)
Next == Setup \/ Create \/ List \/ Read \/ Put_ \/ Remove \/ Commit \/ Resume
Spec == Init /\ [][Next]_vars

(***************************************************************************)
(* Claims about startup (checked under SpecSetup).                         *)
(***************************************************************************)
Matched == pc \in {"matched", "serving"}

\* The keys of the files of the models folder that import and hold a
\* table-mapped class.
DiscoverableKeys ==
    {LowerWord(file.stem) : file \in
        {f \in Range(models_folder.files) :
            /\ ~f.private
            /\ f.importable
            /\ \E name \in f.members : TableMapped(name)}}

\* C8: once the matcher has run, every model key whose discovered schema
\* mapping holds create, update and response carries exactly that mapping
\* (with its 'base' entry, if any), and the synthesizer was not called for it.
C8_CompleteSetPairedUnchanged ==
    Matched =>
        \A k \in DOMAIN models :
            (k \in DOMAIN schemas /\ {"create", "update", "response"} \subseteq DOMAIN schemas[k])
            => /\ models[k].schemas = schemas[k]
               /\ \A role \in DOMAIN schemas[k] : models[k].schemas[role].origin = "file"
               /\ k \notin synthesized

C8_Witness ==
    /\ pc = "matched"
    /\ \E k \in DOMAIN models :
          /\ k \in DOMAIN schemas
          /\ DOMAIN schemas[k] = {"create", "update", "response", "base"}
          /\ models[k].schemas.create.fields = SchemaFields(<<Capitalize(k), "Create">>)
    /\ \E k \in DOMAIN models : k \in synthesized

\* C9: once the matcher has run, every model key whose discovered schema
\* mapping is absent or lacks one of create, update, response carries three
\* synthesized schemas and nothing else: no discovered class of that key is
\* in its final set.
C9_IncompleteSetFullySynthesized ==
    Matched =>
        \A k \in DOMAIN models :
            ~(k \in DOMAIN schemas /\ {"create", "update", "response"} \subseteq DOMAIN schemas[k])
            => /\ DOMAIN models[k].schemas = {"create", "update", "response"}
               /\ \A role \in DOMAIN models[k].schemas :
                     /\ models[k].schemas[role].origin = "auto"
                     /\ DOMAIN models[k].schemas[role].fields \subseteq ColNames(models[k].db_model)
               /\ k \in synthesized
               /\ k \in DOMAIN schemas =>
                     \A found \in DOMAIN schemas[k], role \in DOMAIN models[k].schemas :
                         models[k].schemas[role] # schemas[k][found]

C9_Witness ==
    /\ pc = "matched"
    /\ \E k \in DOMAIN models :
          /\ k \in DOMAIN schemas
          /\ DOMAIN schemas[k] = {"create", "response", "base"}
          /\ models[k].schemas.create.origin = "auto"
    /\ \E k \in DOMAIN models : k \notin DOMAIN schemas

\* C10: when route generation starts, the matched keys are the discovered
\* model keys and every matched entry has a schema for each of create,
\* update and response, whatever the two folders hold.
C10_MatchedModelInvariant ==
    pc = "matched" =>
        /\ DOMAIN models = DiscoverableKeys
        /\ \A k \in DOMAIN models :
              /\ {"create", "update", "response"} \subseteq DOMAIN models[k].schemas
              /\ \A role \in {"create", "update", "response"} :
                    models[k].schemas[role].origin \in {"file", "auto"}

C10_Witness ==
    /\ pc = "matched"
    /\ DOMAIN models # {}
    /\ DOMAIN schemas \ DOMAIN models # {}
    /\ DOMAIN models \ DOMAIN schemas # {}

(***************************************************************************)
(* Claims about the error translator (checked under SpecTranslate).        *)
(***************************************************************************)
Translated == resp.op = "handle_integrity_error"
Answer == [status |-> resp.status, detail |-> resp.detail]
EmailExists == <<"Email already exists. Please use a different email address.">>
UsernameExists == <<"Username already exists. Please choose a different username.">>
EmployeeIdExists == <<"Employee ID already exists. Please use a different employee ID.">>
RecordExists(model_name) ==
    <<"A ", model_name, " with this information already exists. Please check your input.">>
MissingField == <<"Missing required field. Please provide all required information.">>
NoReference == <<"Referenced record does not exist. Please check your input.">>
DatabaseError == <<"Database error: Unable to process request. Please check your input.">>
Has(fragment) == \E i \in 1..Len(error) : error[i] = fragment

\* C6 as stated: the answer is decided by the first marker, in the order
\* email, username, employee id, duplicate key, not-null, foreign key, that
\* occurs in the message, also when a field marker occurs without the
\* duplicate-key phrase.
C6_FlatPriority ==
    Translated =>
        Answer =
            IF Has("_email_key") THEN [status |-> 409, detail |-> EmailExists]
            ELSE IF Has("_username_key") THEN [status |-> 409, detail |-> UsernameExists]
            ELSE IF Has("_employee_id_key") THEN [status |-> 409, detail |-> EmployeeIdExists]
            ELSE IF Has(DupPhrase) THEN [status |-> 409, detail |-> RecordExists(resp.key)]
            ELSE IF Has(NotNullPhrase) THEN [status |-> 400, detail |-> MissingField]
            ELSE IF Has(ForeignKeyPhrase) THEN [status |-> 400, detail |-> NoReference]
            ELSE [status |-> 400, detail |-> DatabaseError]

\* C6 amended: the three field markers count only in a message that holds
\* the duplicate-key phrase; without the phrase the answer is decided by
\* not-null, then foreign key, then the generic 400, whatever field marker
\* the message holds.
C6_PriorityUnderDuplicatePhrase ==
    Translated =>
        Answer =
            IF Has(DupPhrase) /\ Has("_email_key")
            THEN [status |-> 409, detail |-> EmailExists]
            ELSE IF Has(DupPhrase) /\ Has("_username_key")
            THEN [status |-> 409, detail |-> UsernameExists]
            ELSE IF Has(DupPhrase) /\ Has("_employee_id_key")
            THEN [status |-> 409, detail |-> EmployeeIdExists]
            ELSE IF Has(DupPhrase) THEN [status |-> 409, detail |-> RecordExists(resp.key)]
            ELSE IF Has(NotNullPhrase) THEN [status |-> 400, detail |-> MissingField]
            ELSE IF Has(ForeignKeyPhrase) THEN [status |-> 400, detail |-> NoReference]
            ELSE [status |-> 400, detail |-> DatabaseError]

C6_Witness ==
    /\ Translated
    /\ Has(DupPhrase) /\ Has("_username_key") /\ Has("_employee_id_key")
    /\ resp.detail = UsernameExists

(***************************************************************************)
(* Claims about the generated routes (checked under Spec).                 *)
(***************************************************************************)
TableOf(key) == models[key].table_name
ClassOf(key) == models[key].db_model
NotFoundDetail(key) ==
    CASE key = "employee" -> <<"Employee", " not found">>
      [] key = "user" -> <<"User", " not found">>
      [] key = "admin" -> <<"Admin", " not found">>
\* A step in which a request of the given kind is taken up (not a later
\* step in which its handler goes on).
Wrote(op) == resp'.op = op /\ resp'.key \in DOMAIN models /\ resp'.thread = <<>>
Holds(rows, name, value) == \E i \in 1..Len(rows) : rows[i][name] = value

\* What a GET shows of a column the create body left out.
ShownDefault(column, id, at) ==
    CASE column.dflt = "uuid4" -> UuidStr(id)
      [] column.dflt = "utcnow" -> IsoStr(at)
      [] column.dflt = "const" -> column.dval
      [] OTHER -> Null
\* What a GET shows of a value the create body provided.
Shown(value) ==
    CASE value.t = "datetime" -> IsoStr(value.v)
      [] OTHER -> value

Commits ==
    /\ resp'.op = "update_item"
    /\ resp'.thread # <<>>
    /\ resp'.thread[1].at = "selected"
    /\ resp'.status = 0
Target == Find(db[TableOf(resp'.key)], resp'.id)
RowBefore == db[TableOf(resp'.key)][Target]
RowAfter == db'[TableOf(resp'.key)][Target]
OtherRowsKept ==
    /\ \A t \in Tables \ {TableOf(resp'.key)} : db'[t] = db[t]
    /\ Len(db'[TableOf(resp'.key)]) = Len(db[TableOf(resp'.key)])
    /\ \A j \in 1..Len(db[TableOf(resp'.key)]) :
          j # Target => db'[TableOf(resp'.key)][j] = db[TableOf(resp'.key)][j]
Body == resp'.thread[1].body
Written == resp'.thread[1].dirty

\* C2 as stated, for every PUT whose commit returns (a PUT answered 200 is
\* one): a PUT whose body sets the fields F changes the columns in F only;
\* every other column of the row and every other row keeps its value.
C2_OnlySetFieldsChange ==
    [][(Commits /\ Target # 0)
       => /\ OtherRowsKept
          /\ \A n \in ColNames(ClassOf(resp'.key)) \ DOMAIN Body :
                RowAfter[n] = RowBefore[n]]_vars

\* C2 amended, for every PUT whose commit returns (a PUT answered 200 is
\* one): a PUT whose body sets the fields F changes the columns in F and
\* updated_at only.  The fields of F whose value differs from the value the
\* handler read are stored; a field given the value the handler read is
\* not written and keeps what is stored; updated_at, unless it is written,
\* becomes the time of the update when some field is written and keeps its
\* value otherwise; every other column of the row and every other row
\* keeps its value.  A PUT that writes no field changes nothing, also when
\* the row is gone by then.  With one worker nothing runs between the read
\* and the commit, and the value read is the stored one.
C2_OnlySetFieldsAndUpdatedAtChange ==
    [][Commits
       => /\ \A n \in DOMAIN Written : n \in DOMAIN Body /\ Written[n] = Body[n]
          /\ (workers = 1 /\ Target # 0)
                => DOMAIN Written = {n \in DOMAIN Body \cap ColNames(ClassOf(resp'.key)) :
                                        Body[n] # RowBefore[n]}
          /\ IF Target = 0 \/ DOMAIN Written = {} THEN db' = db
             ELSE /\ OtherRowsKept
                  /\ \A n \in DOMAIN Written : RowAfter[n] = Written[n]
                  /\ \A n \in ColNames(ClassOf(resp'.key))
                              \ (DOMAIN Written \cup {"updated_at"}) :
                        RowAfter[n] = RowBefore[n]
                  /\ "updated_at" \notin DOMAIN Written => RowAfter.updated_at = DtV(now)]_vars

C2_Witness ==
    /\ resp.op = "update_item"
    /\ resp.status = 200
    /\ resp.thread # <<>>
    /\ resp.thread[1].wrote
    /\ \E i \in 1..Len(db["employees"]) :
          /\ db["employees"][i].id = UuidV(resp.id)
          /\ db["employees"][i].salary = FloatV(2)
          /\ db["employees"][i].is_active = BoolV(FALSE)
          /\ db["employees"][i].updated_at # db["employees"][i].created_at
    /\ Len(db["employees"]) = 2

\* C3: once a DELETE of an id has succeeded, every later DELETE, GET or PUT
\* of that id answers 404 with the model-named 'not found' message and
\* leaves the stored rows as they are.
C3_DeletedStaysAbsent ==
    [][(/\ resp'.op \in {"delete_item", "read_item", "update_item"}
        /\ resp'.thread = <<>>
        /\ <<resp'.key, resp'.id>> \in deleted)
       => /\ resp'.status = 404
          /\ resp'.detail = NotFoundDetail(resp'.key)
          /\ db' = db]_vars

C3_Witness ==
    /\ resp.op = "update_item"
    /\ <<resp.key, resp.id>> \in deleted
    /\ resp.status = 404
    /\ resp.body # EmptyDict
    /\ Len(db["employees"]) > 0

\* A POST whose email is the email of a stored row.
RepeatsEmail ==
    /\ Wrote("create_item")
    /\ "email" \in DOMAIN resp'.body
    /\ "email" \in ColNames(ClassOf(resp'.key))
    /\ Holds(db[TableOf(resp'.key)], "email", resp'.body.email)
RepeatsEmployeeId ==
    /\ "employee_id" \in DOMAIN resp'.body
    /\ "employee_id" \in ColNames(ClassOf(resp'.key))
    /\ Holds(db[TableOf(resp'.key)], "employee_id", resp'.body.employee_id)

\* C4 as stated, for the requests whose commit reaches the constraint
\* checks: a POST carrying the email of a stored row answers 409 with the
\* email message and the store holds the rows it held before.
C4_RepeatedEmailIsEmailConflict ==
    [][(RepeatsEmail /\ error' # <<>>)
       => /\ resp'.status = 409
          /\ resp'.detail = EmailExists
          /\ db' = db]_vars

\* C4 amended: a POST carrying the email of a stored row never changes the
\* stored rows; when a unique constraint rejects it the answer is 409, with
\* the email message if the body's employee id is not stored too and with
\* the employee-id message if it is (that constraint is reported first);
\* when the commit fails for another reason the answer is the generic 400.
C4_RepeatedEmailIsConflict ==
    [][RepeatsEmail
       => /\ db' = db
          /\ error' # <<>> =>
                /\ resp'.status = 409
                /\ resp'.detail = IF RepeatsEmployeeId THEN EmployeeIdExists ELSE EmailExists
          /\ error' = <<>> =>
                /\ resp'.status = 400
                /\ SubSeq(resp'.detail, 1, 3) = <<"Error creating ", resp'.key, ": ">>]_vars

C4_Witness ==
    /\ resp.op = "create_item"
    /\ resp.status = 409
    /\ resp.detail = EmailExists
    /\ Holds(db["employees"], "email", resp.body.email)
    /\ ~Holds(db["employees"], "employee_id", resp.body.employee_id)

\* C5: a create, update or delete that answers 404, 409 or 400 leaves the
\* committed rows and their column values as they were before the request:
\* the step that takes the request up changes no row, and a handler that
\* answers after its commit has written nothing.
C5_FailureLeavesRows ==
    [][(/\ resp'.op \in {"create_item", "update_item", "delete_item"}
        /\ resp'.status \in {404, 409, 400})
       => IF resp'.thread = <<>> \/ resp'.thread[1].at = "selected" THEN db' = db
          ELSE ~resp'.thread[1].wrote]_vars

\* The request on which the handlers depart from C5: a POST answered 400
\* whose row is stored.
C5_Witness ==
    /\ resp.op = "create_item"
    /\ resp.status = 400
    /\ resp.thread # <<>>
    /\ SubSeq(resp.detail, 1, 3) = <<"Error creating ", "employee", ": ">>
    /\ \E i \in 1..Len(db["employees"]) : db["employees"][i].id = UuidV(resp.id)

\* The list request of the last response, with the defaults filled in.
Listed == resp.op = "read_items" /\ resp.key \in DOMAIN models
AskedSkip == IF resp.skip.given THEN resp.skip.v ELSE 0
AskedLimit == IF resp.limit.given THEN resp.limit.v ELSE 100
InRange == AskedSkip >= 0 /\ AskedLimit >= 1 /\ AskedLimit <= 1000
Stored == db[TableOf(resp.key)]
PageLen ==
    IF Len(Stored) <= AskedSkip THEN 0
    ELSE IF Len(Stored) - AskedSkip < AskedLimit THEN Len(Stored) - AskedSkip
    ELSE AskedLimit
\* The stored rows in the orders the query may return them.
Orders == {[i \in 1..Len(Stored) |-> Stored[p[i]]] : p \in Permutations(1..Len(Stored))}
ReturnsPage(scan) ==
    /\ resp.status = 200
    /\ Len(resp.out) = PageLen
    /\ Len(resp.out) <= AskedLimit
    /\ \A j \in 1..PageLen : resp.out[j].id = UuidStr(scan[AskedSkip + j].id.v)
\* C7 as stated: the list route answers 400 when skip < 0 or limit is
\* outside [1,1000], and 200 with at most limit rows from offset skip for
\* every other skip and limit; skip defaults to 0 and limit to 100.
C7_OutOfRangeIs400 ==
    Listed => IF InRange THEN \E scan \in Orders : ReturnsPage(scan)
              ELSE resp.status = 400

\* The request on which the list route departs from C7: limit=1001 on a
\* table that holds a row is answered 422 with the framework's list of
\* validation errors.
C7_Witness ==
    /\ Listed
    /\ ~InRange
    /\ resp.status = 422
    /\ resp.skip = Omitted
    /\ resp.limit = Given(1001)
    /\ Len(resp.detail) = 1
    /\ resp.detail[1].type = "less_than_equal"
    /\ resp.detail[1].loc = <<"query", "limit">>
    /\ Stored # <<>>

(***************************************************************************)
(* Claims about the two loaders (checked under SpecLoaders).               *)
(***************************************************************************)
\* The files the model loader imports that hold a table-mapped class, and
\* the class of a file that getmembers enumerates last.
ScannedModelFiles ==
    {f \in Range(models_folder.files) :
        ~f.private /\ f.importable /\ \E m \in f.members : TableMapped(m)}
Position(name) == CHOOSE i \in 1..Len(ModelNameOrder) : ModelNameOrder[i] = name
LastClass(file) ==
    CHOOSE q \in {m \in file.members : TableMapped(m)} :
        \A o \in {m \in file.members : TableMapped(m)} : Position(o) <= Position(q)

\* C11: every imported non-private file with a table-mapped class has one
\* model entry, under its lowercased stem, holding the class enumerated
\* last; no other key has an entry, and routes exist for these keys only.
C11_LastClassOfFileKeepsKey ==
    pc # "start" =>
        /\ DOMAIN models = {LowerWord(f.stem) : f \in ScannedModelFiles}
        /\ \A f \in ScannedModelFiles :
              /\ models[LowerWord(f.stem)].db_model = LastClass(f)
              /\ models[LowerWord(f.stem)].class_name = LastClass(f)
        /\ pc = "serving" => {r[1] : r \in routes} = DOMAIN models

C11_Witness ==
    /\ pc = "serving"
    /\ \E f \in ScannedModelFiles :
          /\ f.stem = "user"
          /\ {"Product", "User"} \subseteq f.members
          /\ "UserProfile" \notin f.members
          /\ models.user.class_name = "User"
    /\ \E f \in ScannedModelFiles : f.stem = "Employee" /\ "employee" \in DOMAIN models
    /\ \E f \in Range(models_folder.files) : f.private

\* The role the claim gives a class name: the first of create, update,
\* response, base that its name holds.
Mentions(name, word) ==
    \E i \in 1..Len(name) :
        \/ name[i] = word
        \/ word = "Base" /\ name[i] = "Database"
RoleByName(name) ==
    IF Mentions(name, "Create") THEN "create"
    ELSE IF Mentions(name, "Update") THEN "update"
    ELSE IF Mentions(name, "Response") THEN "response"
    ELSE IF Mentions(name, "Base") THEN "base"
    ELSE "none"
SchemaClassesOf(file) == {m \in file.members : IsSchemaClass(m)}
RolesOf(file) == {RoleByName(m) : m \in SchemaClassesOf(file)} \ {"none"}

\* C12: every schema class of an imported file is registered under at most
\* one role, the first of create, update, response, base that occurs in its
\* name; a class holding none is registered nowhere, and a file none of
\* whose classes has a role has no entry.
C12_FirstMatchingRole ==
    pc \notin {"start", "models"} =>
        \A f \in {g \in Range(schemas_folder.files) : ~g.private /\ g.importable} :
            IF RolesOf(f) = {} THEN LowerWord(f.stem) \notin DOMAIN schemas
            ELSE /\ LowerWord(f.stem) \in DOMAIN schemas
                 /\ DOMAIN schemas[LowerWord(f.stem)] = RolesOf(f)
                 /\ \A role \in RolesOf(f) :
                       /\ schemas[LowerWord(f.stem)][role].name \in SchemaClassesOf(f)
                       /\ RoleByName(schemas[LowerWord(f.stem)][role].name) = role

C12_Witness ==
    /\ pc = "schemas"
    /\ "item" \in DOMAIN schemas
    /\ DOMAIN schemas.item = {"create", "base"}
    /\ schemas.item.create.name = <<"Item", "Base", "Create">>
    /\ schemas.item.base.name = <<"Item", "Database">>
    /\ \E f \in Range(schemas_folder.files) : <<"Item", "Schema">> \in f.members

(***************************************************************************)
(* Claims about the synthesizer and the serializer (checked under          *)
(* SpecFunctions).                                                         *)
(***************************************************************************)
\* The claim's classification of a column as 'auto', apart from the
\* primary key.
NamedAsTimestamp(column) == column.name \in {"created_at", "updated_at", "LAST_UPDATED_AT"}
Auto(column) == column.dflt # "none" \/ column.server_default \/ NamedAsTimestamp(column)
CreateColumns(columns) == {c \in Range(columns) : ~c.pk /\ ~Auto(c)}

\* C13: the create fields of a table are exactly its columns that are not
\* primary key and not auto; a nullable or defaulted one is optional with
\* the column's default as its default, every other one is required.  The
\* claim's example table gives name required, age optional and nothing else.
C13_CreateFields ==
    (resp.op = "auto_generate_schemas" /\ "raised" \notin DOMAIN resp.out) =>
        /\ DOMAIN resp.out.create.fields = {c.name : c \in CreateColumns(resp.body)}
        /\ \A c \in CreateColumns(resp.body) :
              IF c.nullable \/ c.dflt # "none"
              THEN /\ resp.out.create.fields[c.name].opt
                   /\ ~resp.out.create.fields[c.name].req
                   /\ resp.out.create.fields[c.name].dflt = c.dval
              ELSE resp.out.create.fields[c.name].req /\ ~resp.out.create.fields[c.name].opt
        /\ ( /\ {c.name : c \in Range(resp.body)} = {"id", "name", "age", "created_at"}
             /\ \A c \in Range(resp.body) :
                   /\ c.pk = (c.name = "id")
                   /\ (c.dflt # "none") = (c.name = "created_at")
                   /\ ~c.server_default
                   /\ c.nullable = (c.name \in {"age", "created_at"}) )
           => /\ DOMAIN resp.out.create.fields = {"name", "age"}
              /\ resp.out.create.fields.name.req
              /\ resp.out.create.fields.age.opt /\ ~resp.out.create.fields.age.req

C13_Witness ==
    /\ resp.op = "auto_generate_schemas"
    /\ "raised" \notin DOMAIN resp.out
    /\ Len(resp.body) = 4
    /\ DOMAIN resp.out.create.fields = {"name", "age"}
    /\ resp.out.create.fields.name.req
    /\ resp.out.create.fields.age.opt
    /\ \E c \in Range(resp.body) : c.name = "id" /\ c.pk /\ c.dflt = "none"
    /\ \E c \in Range(resp.body) :
          c.name = "created_at" /\ c.dflt = "utcnow" /\ c.nullable /\ ~c.server_default
    /\ \E c \in Range(resp.body) : c.name = "age" /\ c.nullable /\ ~Auto(c)
    /\ \E c \in Range(resp.body) : c.name = "name" /\ ~c.nullable /\ ~Auto(c)

\* C14: the serialized row has one entry per column; a UUID is rendered as
\* its string form, a timestamp in ISO form, and a value of any other kind
\* (text, integer, float, boolean, None) is the stored value itself.
C14_OtherKindsPassThrough ==
    resp.op = "serialize_db_item" =>
        /\ DOMAIN resp.out = ColNames(resp.key)
        /\ \A n \in ColNames(resp.key) :
              CASE resp.body[n].t = "uuid" -> resp.out[n] = UuidStr(resp.body[n].v)
                [] resp.body[n].t = "datetime" -> resp.out[n] = IsoStr(resp.body[n].v)
                [] OTHER -> resp.out[n] = resp.body[n]

\* The row on which the serializer departs from C14: an Employee whose
\* salary is a float comes out with the salary as a string.
C14_Witness ==
    /\ resp.op = "serialize_db_item"
    /\ resp.key = "Employee"
    /\ resp.body.salary = FloatV(1)
    /\ resp.out.salary = FloatStr(1)
    /\ resp.out.id = UuidStr(1)
    /\ resp.out.created_at = IsoStr(1)
    /\ resp.out.first_name = resp.body.first_name

(***************************************************************************)
(* Claims about the discovery tables while serving (checked under Spec).   *)
(***************************************************************************)
\* C15: once setup has returned, no request changes the model table, the
\* schema table or the mounted routes, and the only rows a request changes
\* are rows of the table of its own model.
C15_RequestsKeepDiscoveryTables ==
    [][pc = "serving" =>
          /\ pc' = "serving"
          /\ models' = models
          /\ schemas' = schemas
          /\ routes' = routes
          /\ \A t \in Tables : t # models[resp'.key].table_name => db'[t] = db[t]]_vars

C15_Witness ==
    /\ pc = "serving"
    /\ resp.op = "delete_item"
    /\ resp.status = 200
    /\ resp.key = "employee"
    /\ <<"employee", resp.id>> \in deleted
    /\ DOMAIN models = {"admin", "employee", "user"}
    /\ routes # {}
====
